---- MODULE Spec2Model ----
(***************************************************************************)
(* Model of gcp_find.py: the GcpFind class (construction, coordinate       *)
(* loading, the per-image loop) with the external marker detector as a     *)
(* nondeterministic environment.                                           *)
(*                                                                         *)
(* Text is modelled as sequences of fields.  A field is a record           *)
(* [k, n, s]: k = "d" an integer printed with {}, k = "f3" a float printed *)
(* with {:.3f} (n in thousandths), k = "s" a string.                       *)
(* World coordinates are kept in thousandths of a unit.                    *)
(* The --debug plotting (matplotlib) has no effect on the modelled state   *)
(* and is left out.                                                        *)
(***************************************************************************)
EXTENDS Integers, Sequences, FiniteSets, TLC

VARIABLES args, pc, coords, gcp_found, foutput, finput, stdout, file, idx, seen

vars == <<args, pc, coords, gcp_found, foutput, finput, stdout, file, idx, seen>>

(* ---------------------------- bounds ----------------------------------- *)
MaxNames == 2      \* longest list of image names on the command line
MaxMarkers == 2    \* most markers the detector returns on one image
MaxLines == 1      \* longest coordinate input file
MaxDetections == 3 \* most markers the detector returns over one run
MaxPix == 2        \* largest corner pixel coordinate in the centroid check

(* ------------------------- text and values ----------------------------- *)
D(n) == [k |-> "d", n |-> n, s |-> ""]
S(s) == [k |-> "s", n |-> 0, s |-> s]
\* '{:.3f}'.format(v): v is held in thousandths, three decimals are exact
F3(v) == [k |-> "f3", n |-> v, s |-> ""]

Say(text) == [via |-> "print", text |-> text]
Put(text) == [via |-> "write", text |-> text]

NoEpsg == -1       \* args.epsg is None
OldContent == << <<S("stale")>> >>   \* what the output file held before the run

Images == {"a/p1.jpg", "p2.jpg"}

basename(p) ==
    CASE p = "a/p1.jpg" -> "p1.jpg"
      [] p = "p2.jpg" -> "p2.jpg"

\* the image named at position p of the command line: the two images in
\* turn, so that a list of three names the first image twice
NameAt(p) == IF p % 2 = 1 THEN "a/p1.jpg" ELSE "p2.jpg"
NameLists == {[p \in 1..n |-> NameAt(p)] : n \in 0..MaxNames}

RECURSIVE SeqsUpTo(_, _)
SeqsUpTo(Sset, n) ==
    IF n = 0 THEN {<<>>}
    ELSE LET shorter == SeqsUpTo(Sset, n - 1)
         IN shorter \cup {Append(q, e) : q \in {r \in shorter : Len(r) = n - 1}, e \in Sset}

(* tokens of a coordinate file line, after strip().split(separator) *)
TInt(n) == [k |-> "int", v |-> n]       \* integer literal
TDec(v) == [k |-> "dec", v |-> v]       \* decimal literal, v in thousandths
TWord == [k |-> "word", v |-> 0]        \* not a number

LineChoices ==
    { <<TInt(1), TDec(100500), TInt(200), TDec(10250), TWord>>,   \* a record, then a comment
      <<TInt(2), TDec(1500), TDec(2500)>>,                        \* too few fields
      <<TInt(2), TWord, TDec(2500), TDec(3500)>>,                 \* non-numeric coordinate
      <<TDec(2500), TInt(1), TInt(2), TInt(3)>> }                 \* id is not an integer

Files == SeqsUpTo(LineChoices, MaxLines)

\* int(tok): only an integer literal parses
IntOk(tok) == tok.k = "int"
IntOf(tok) == tok.v
\* float(tok): integer and decimal literals parse
FloatOk(tok) == tok.k \in {"int", "dec"}
FloatOf(tok) == IF tok.k = "int" THEN tok.v * 1000 ELSE tok.v

\* the text of a line as it is echoed in a message
TokField(tok) ==
    IF tok.k = "int" THEN D(tok.v) ELSE IF tok.k = "dec" THEN F3(tok.v) ELSE S("word")
LineText(co_list) == [t \in 1..Len(co_list) |-> TokField(co_list[t])]

(* ------------------------- detector results ---------------------------- *)
QuadA == << <<0, 0>>, <<4, 0>>, <<4, 4>>, <<0, 4>> >>
QuadB == << <<10, 20>>, <<13, 20>>, <<13, 25>>, <<10, 25>> >>

Markers ==
    { [id |-> 1, corners |-> QuadA],
      [id |-> 2, corners |-> QuadB] }

\* cv2.imread gave None
Unreadable == [readable |-> FALSE, markers |-> <<>>]
\* detectMarkers result; ids is None exactly when markers is empty
Detected(ms) == [readable |-> TRUE, markers |-> ms]

Frames == {Unreadable} \cup {Detected(ms) : ms \in SeqsUpTo(Markers, MaxMarkers)}

Pixels == 0..MaxPix
Points == Pixels \X Pixels
\* one marker, three corners anywhere on the pixel grid and one in its corner
CenterFrames ==
    {Detected(<<[id |-> 1, corners |-> <<p1, p2, p3, <<MaxPix, 0>> >>]>>) :
        p1 \in Points, p2 \in Points, p3 \in Points}

(* ----------------------------- list_dicts ------------------------------ *)
ArucoDicts == << [id |-> 1, name |-> "DICT_4X4_100"], [id |-> 0, name |-> "DICT_4X4_50"] >>

RECURSIVE InsertSorted(_, _)
InsertSorted(sq, e) ==
    IF sq = <<>> THEN <<e>>
    ELSE IF e.id < Head(sq).id THEN <<e>> \o sq
    ELSE <<Head(sq)>> \o InsertSorted(Tail(sq), e)

RECURSIVE Sorted(_)
Sorted(sq) == IF sq = <<>> THEN <<>> ELSE InsertSorted(Sorted(Tail(sq)), Head(sq))

\* sorted(idsl)
RECURSIVE InsertInt(_, _)
InsertInt(sq, e) ==
    IF sq = <<>> THEN <<e>>
    ELSE IF e < Head(sq) THEN <<e>> \o sq
    ELSE <<Head(sq)>> \o InsertInt(Tail(sq), e)

RECURSIVE SortInts(_)
SortInts(sq) == IF sq = <<>> THEN <<>> ELSE InsertInt(SortInts(Tail(sq)), Head(sq))

list_dicts == Sorted(<<[id |-> 99, name |-> "DICT_3X3_32 custom"]>> \o ArucoDicts)

(* ----------------------------- check_params ---------------------------- *)
\* check_params going on after a coordinate file that cannot be opened
check_params_lenient(outOK, inOK) ==
    IF args.names = <<>>
    THEN [ok |-> FALSE, foutput |-> "unopened", finput |-> "unopened",
          msgs |-> <<Say(<<S("no input images given")>>)>>]
    ELSE IF args.output # "stdout" /\ ~outOK
    THEN [ok |-> FALSE, foutput |-> "unopened", finput |-> "unopened",
          msgs |-> <<Say(<<S("cannot open output file")>>)>>]
    ELSE [ok |-> TRUE,
          foutput |-> IF args.output = "stdout" THEN "stdout" ELSE "file",
          finput |-> IF args.input # "" /\ inOK THEN "open" ELSE "unopened",
          msgs |-> IF args.input # "" /\ ~inOK
                   THEN <<Say(<<S("cannot open input file")>>)>> ELSE <<>>]

\* outOK, inOK: whether open() of the output and the input file succeeds
check_params(outOK, inOK) ==
    IF args.names = <<>>
    THEN [ok |-> FALSE, foutput |-> "unopened", finput |-> "unopened",
          msgs |-> <<Say(<<S("no input images given")>>)>>]
    ELSE IF args.output # "stdout" /\ ~outOK
    THEN [ok |-> FALSE, foutput |-> "unopened", finput |-> "unopened",
          msgs |-> <<Say(<<S("cannot open output file")>>)>>]
    ELSE LET fo == IF args.output = "stdout" THEN "stdout" ELSE "file"
         IN IF args.input # "" /\ ~inOK
            THEN [ok |-> FALSE, foutput |-> fo, finput |-> "unopened",
                  msgs |-> <<Say(<<S("cannot open input file")>>)>>]
            ELSE [ok |-> TRUE, foutput |-> fo,
                  finput |-> IF args.input # "" THEN "open" ELSE "unopened",
                  msgs |-> <<>>]

(* ------------------------------ coo_input ------------------------------ *)
\* for line in self.finput: ... ; a ValueError of int()/float() is not caught
RECURSIVE coo_input(_, _, _)
coo_input(lines, co, msgs) ==
    IF lines = <<>> THEN [ok |-> TRUE, coords |-> co, msgs |-> msgs]
    ELSE LET co_list == Head(lines)
         IN IF Len(co_list) < 4
            THEN coo_input(Tail(lines), co,
                           Append(msgs, Say(<<S("Illegal input:")>> \o LineText(co_list))))
            ELSE IF ~IntOk(co_list[1]) \/ \E t \in 2..4 : ~FloatOk(co_list[t])
            THEN [ok |-> FALSE, coords |-> co, msgs |-> msgs]
            ELSE LET key == IntOf(co_list[1])
                     val == <<FloatOf(co_list[2]), FloatOf(co_list[3]), FloatOf(co_list[4])>>
                 IN coo_input(Tail(lines),
                              [j \in DOMAIN co \cup {key} |-> IF j = key THEN val ELSE co[j]],
                              msgs)

(* ----------------------------- process_image --------------------------- *)
Sum4(col) == col[1] + col[2] + col[3] + col[4]

\* RoundDiv with an exact half always going up
RoundDivHalfUp(num, den) ==
    LET q == num \div den
        r == num % den
    IN IF 2 * r < den THEN q ELSE q + 1

\* int(round(num / den)) for num >= 0: nearest integer, an exact half to even
RoundDiv(num, den) ==
    LET q == num \div den
        r == num % den
    IN IF 2 * r < den THEN q
       ELSE IF 2 * r > den THEN q + 1
       ELSE IF q % 2 = 0 THEN q ELSE q + 1

\* int(round(np.average(corners[i][0][:, axis])))
center(corners, axis) ==
    RoundDiv(Sum4([c \in 1..4 |-> corners[c][axis]]), 4)

\* found_append keeping an image at most once in a marker's list
found_append_once(gf, j, image_name) ==
    IF \E p \in 1..Len(gf) : gf[p].id = j
    THEN [p \in 1..Len(gf) |->
            IF gf[p].id = j /\ \A q \in 1..Len(gf[p].images) : gf[p].images[q] # image_name
            THEN [id |-> j, images |-> Append(gf[p].images, image_name)]
            ELSE gf[p]]
    ELSE Append(gf, [id |-> j, images |-> <<image_name>>])

\* self.gcp_found[j].append(image_name), keys kept in insertion order
found_append(gf, j, image_name) ==
    IF \E p \in 1..Len(gf) : gf[p].id = j
    THEN [p \in 1..Len(gf) |->
            IF gf[p].id = j
            THEN [id |-> j, images |-> Append(gf[p].images, image_name)]
            ELSE gf[p]]
    ELSE Append(gf, [id |-> j, images |-> <<image_name>>])

\* marker_out with the ODM and VisualSfM branches writing the id-only line
\* of the default branch for a marker without coordinates
marker_out_always(m, image_name) ==
    LET j == m.id
        x == center(m.corners, 1)
        y == center(m.corners, 2)
        img == S(basename(image_name))
    IN IF j \in DOMAIN coords
       THEN Put(<<F3(coords[j][1]), F3(coords[j][2]), F3(coords[j][3]), D(x), D(y), img>>)
       ELSE Put(<<D(j), D(x), D(y), img>>)

\* marker_out with the id also at the end of the default line with coordinates
marker_out_withid(m, image_name) ==
    LET j == m.id
        x == center(m.corners, 1)
        y == center(m.corners, 2)
        img == S(basename(image_name))
        known == j \in DOMAIN coords
    IN IF args.type = "VisualSfM"
       THEN IF known
            THEN Put(<<img, D(x), D(y),
                       F3(coords[j][1]), F3(coords[j][2]), F3(coords[j][3])>>)
            ELSE Say(<<S("No coordinates for"), D(j)>>)
       ELSE IF known
            THEN Put(<<F3(coords[j][1]), F3(coords[j][2]), F3(coords[j][3]),
                       D(x), D(y), img, D(j)>>)
            ELSE IF args.type = "ODM"
            THEN Say(<<S("No coordinates for"), D(j)>>)
            ELSE Put(<<D(j), D(x), D(y), img>>)

\* the text one marker puts on the stream: an output line or a warning
marker_out(m, image_name) ==
    LET j == m.id
        x == center(m.corners, 1)
        y == center(m.corners, 2)
        img == S(basename(image_name))
        known == j \in DOMAIN coords
    IN IF args.type = "ODM"
       THEN IF known
            THEN Put(<<F3(coords[j][1]), F3(coords[j][2]), F3(coords[j][3]),
                       D(x), D(y), img, D(j)>>)
            ELSE Say(<<S("No coordinates for"), D(j)>>)
       ELSE IF args.type = "VisualSfM"
       THEN IF known
            THEN Put(<<img, D(x), D(y),
                       F3(coords[j][1]), F3(coords[j][2]), F3(coords[j][3])>>)
            ELSE Say(<<S("No coordinates for"), D(j)>>)
       ELSE IF known
            THEN Put(<<F3(coords[j][1]), F3(coords[j][2]), F3(coords[j][3]),
                       D(x), D(y), img>>)
            ELSE Put(<<D(j), D(x), D(y), img>>)

\* marker_loop leaving the loop at the first marker without coordinates
RECURSIVE marker_loop_abort(_, _, _, _)
marker_loop_abort(ms, image_name, gf, stream) ==
    IF ms = <<>> THEN [gcp_found |-> gf, stream |-> stream]
    ELSE IF args.type # "" /\ Head(ms).id \notin DOMAIN coords
    THEN [gcp_found |-> found_append(gf, Head(ms).id, image_name),
          stream |-> Append(stream, marker_out(Head(ms), image_name))]
    ELSE marker_loop_abort(Tail(ms), image_name,
                           found_append(gf, Head(ms).id, image_name),
                           Append(stream, marker_out(Head(ms), image_name)))

\* marker_loop taking the markers last to first
RECURSIVE marker_loop_rev(_, _, _, _)
marker_loop_rev(ms, image_name, gf, stream) ==
    IF ms = <<>> THEN [gcp_found |-> gf, stream |-> stream]
    ELSE marker_loop_rev(SubSeq(ms, 1, Len(ms) - 1), image_name,
                         found_append(gf, ms[Len(ms)].id, image_name),
                         Append(stream, marker_out(ms[Len(ms)], image_name)))

\* for i in range(ids.size): ...
RECURSIVE marker_loop(_, _, _, _)
marker_loop(ms, image_name, gf, stream) ==
    IF ms = <<>> THEN [gcp_found |-> gf, stream |-> stream]
    ELSE marker_loop(Tail(ms), image_name,
                     found_append(gf, Head(ms).id, image_name),
                     Append(stream, marker_out(Head(ms), image_name)))

idsl(frame) == [p \in 1..Len(frame.markers) |-> frame.markers[p].id]
SetOf(sq) == {sq[p] : p \in 1..Len(sq)}

\* process_image with the two messages of a skipped image sent to the output
process_image_msgout(image_name, frame) ==
    IF ~frame.readable
    THEN [gcp_found |-> gcp_found,
          stream |-> <<Put(<<S("error reading image:"), S(image_name)>>)>>]
    ELSE IF frame.markers = <<>>
    THEN [gcp_found |-> gcp_found,
          stream |-> <<Put(<<S("No markers found on image"), S(image_name)>>)>>]
    ELSE marker_loop(frame.markers, image_name, gcp_found, << >>)

\* the whole of process_image on one detector result
process_image(image_name, frame) ==
    IF ~frame.readable
    THEN [gcp_found |-> gcp_found,
          stream |-> <<Say(<<S("error reading image:"), S(image_name)>>)>>]
    ELSE IF frame.markers = <<>>
    THEN [gcp_found |-> gcp_found,
          stream |-> <<Say(<<S("No markers found on image"), S(image_name)>>)>>]
    ELSE LET ids == idsl(frame)
             dup == IF Len(ids) - Cardinality(SetOf(ids)) # 0
                    THEN <<Say(<<S("duplicate markers on image"), S(image_name)>>),
                           Say(<<S("marker ids:")>> \o [p \in 1..Len(ids) |-> D(SortInts(ids)[p])])>>
                    ELSE <<>>
             verb == IF args.verbose
                     THEN <<Say(<<D(Len(ids)), S("GCP markers found")>>)>>
                     ELSE <<>>
         IN marker_loop(frame.markers, image_name, gcp_found, dup \o verb)

(* ------------------------------ the stream ----------------------------- *)
\* print() goes to sys.stdout; foutput.write goes to sys.stdout or to the file
Prints(stream) == SelectSeq(stream, LAMBDA e : e.via = "print")
Writes(stream) == SelectSeq(stream, LAMBDA e : e.via = "write")
Texts(stream) == [p \in 1..Len(stream) |-> stream[p].text]

ToStdout(fo, stream) == IF fo = "stdout" THEN stream ELSE Prints(stream)
ToFile(fo, stream) == IF fo = "file" THEN Texts(Writes(stream)) ELSE <<>>

(* -------------------------------- state -------------------------------- *)
AllArgs ==
    [names : NameLists,
     type : {"ODM", "VisualSfM", ""},
     epsg : {NoEpsg, 4326},
     input : {"", "coords.txt"},
     output : {"stdout", "gcp.txt"},
     list : BOOLEAN,
     verbose : BOOLEAN]

\* the command lines of the runs: the verbose flag is tried with the default
\* output and without an EPSG code
ArgSpace == {a \in AllArgs : a.verbose => (a.output = "stdout" /\ a.epsg = NoEpsg)}

Init ==
    /\ args \in ArgSpace
    /\ pc = "init"
    /\ coords = << >>
    /\ gcp_found = << >>
    /\ foutput = "unopened"
    /\ finput = "unopened"
    /\ stdout = << >>
    /\ file = OldContent
    /\ idx = 1
    /\ seen = << >>

(* ------------------------------- __init__ ------------------------------ *)
\* epsg_header without the test of the type
epsg_header_anytype ==
    IF args.epsg # NoEpsg
    THEN <<Put(<<S("EPSG:"), D(args.epsg)>>)>>
    ELSE << >>

epsg_header ==
    IF args.type = "ODM" /\ args.epsg # NoEpsg
    THEN <<Put(<<S("EPSG:"), D(args.epsg)>>)>>
    ELSE << >>

Help == Say(<<S("usage")>>)

\* the dictionary list of the --list option, one line per dictionary
list_output ==
    [p \in 1..Len(list_dicts) |-> Say(<<D(list_dicts[p].id), S(list_dicts[p].name)>>)]

\* __init__ from check_params on: the parameter check, the coordinate
\* loading and the EPSG header
init_rest(outOK, inOK, content) ==
    LET cp == check_params(outOK, inOK)
        opened == IF cp.foutput = "file" THEN << >> ELSE file   \* open(.., 'w') truncates
    IN IF ~cp.ok
       THEN [pc |-> "exit1", stdout |-> stdout \o cp.msgs \o <<Help>>, coords |-> coords,
             foutput |-> cp.foutput, finput |-> cp.finput, file |-> opened]
       ELSE LET ld == IF args.input # ""
                      THEN coo_input(content, coords, << >>)
                      ELSE [ok |-> TRUE, coords |-> coords, msgs |-> << >>]
            IN IF ~ld.ok
               THEN [pc |-> "error", stdout |-> stdout \o ld.msgs, coords |-> ld.coords,
                     foutput |-> cp.foutput, finput |-> cp.finput, file |-> opened]
               ELSE [pc |-> "run",
                     stdout |-> stdout \o ld.msgs \o ToStdout(cp.foutput, epsg_header),
                     coords |-> ld.coords,
                     foutput |-> cp.foutput,
                     finput |-> IF args.input # "" THEN "closed" ELSE cp.finput,
                     file |-> opened \o ToFile(cp.foutput, epsg_header)]

\* __init__ with the list flag looked at after the parameter check
init_body_listlate(outOK, inOK, content) ==
    LET cp == check_params(outOK, inOK)
    IN IF ~cp.ok THEN init_rest(outOK, inOK, content)
       ELSE IF args.list
       THEN [pc |-> "exit0", stdout |-> stdout \o list_output, coords |-> coords,
             foutput |-> cp.foutput, finput |-> cp.finput,
             file |-> IF cp.foutput = "file" THEN << >> ELSE file]
       ELSE init_rest(outOK, inOK, content)

\* the body of __init__; the files it meets are its inputs: whether the two
\* open() calls succeed and what the coordinate file holds
init_body(outOK, inOK, content) ==
    IF args.list
    THEN [pc |-> "exit0", stdout |-> stdout \o list_output, coords |-> coords,
          foutput |-> foutput, finput |-> finput, file |-> file]
    ELSE init_rest(outOK, inOK, content)

Construct(outOK, inOK, content) ==
    /\ pc = "init"
    /\ LET r == init_body(outOK, inOK, content)
       IN /\ pc' = r.pc
          /\ stdout' = r.stdout
          /\ coords' = r.coords
          /\ foutput' = r.foutput
          /\ finput' = r.finput
          /\ file' = r.file
    /\ UNCHANGED <<args, gcp_found, idx, seen>>

(* ---------------------------- process_images --------------------------- *)
\* one turn of the loop over args.names: process_image(f_name)
ProcessImage(frame) ==
    /\ pc = "run"
    /\ idx <= Len(args.names)
    /\ LET f_name == args.names[idx]
           verb == IF args.verbose THEN <<Say(<<S("processing"), S(f_name)>>)>> ELSE << >>
           r == process_image(f_name, frame)
       IN /\ gcp_found' = r.gcp_found
          /\ stdout' = stdout \o verb \o ToStdout(foutput, r.stream)
          /\ file' = file \o ToFile(foutput, r.stream)
          /\ seen' = Append(seen, [name |-> f_name, frame |-> frame])
    /\ idx' = idx + 1
    /\ UNCHANGED <<args, pc, coords, foutput, finput>>

\* the end of process_images: the verbose summary and foutput.close()
Finish ==
    /\ pc = "run"
    /\ idx > Len(args.names)
    /\ stdout' = stdout \o
            (IF args.verbose
             THEN [p \in 1..Len(gcp_found) |->
                     Say(<<S("GCP"), D(gcp_found[p].id), S("on"),
                           D(Len(gcp_found[p].images)), S("images")>>
                         \o [q \in 1..Len(gcp_found[p].images) |-> S(gcp_found[p].images[q])])]
             ELSE << >>)
    /\ foutput' = "closed"
    /\ pc' = "done"
    /\ UNCHANGED <<args, coords, gcp_found, finput, file, idx, seen>>

\* the number of markers the detector has returned so far
RECURSIVE NumDetected(_)
NumDetected(sn) ==
    IF sn = << >> THEN 0 ELSE Len(Head(sn).frame.markers) + NumDetected(Tail(sn))

\* the detector results that keep the run within MaxDetections markers
FramesLeft == {f \in Frames : NumDetected(seen) + Len(f.markers) <= MaxDetections}

Next ==
    \/ \E outOK \in BOOLEAN, inOK \in BOOLEAN, content \in Files : Construct(outOK, inOK, content)
    \/ \E frame \in FramesLeft : ProcessImage(frame)
    \/ Finish

Spec == Init /\ [][Next]_vars

\* the runs in which the loop over the images is followed to its end: quiet
\* runs without an EPSG code; every step is a step of the one thread
InitLoop == Init /\ ~args.verbose /\ args.epsg = NoEpsg

FairSpec == InitLoop /\ [][Next]_vars /\ WF_vars(Next)

(* ------------- the centroid on arbitrary corner coordinates ------------ *)
CenterArgs ==
    {a \in ArgSpace : /\ Len(a.names) = 1
                      /\ a.type = ""
                      /\ a.epsg = NoEpsg
                      /\ a.input = "coords.txt"
                      /\ a.output = "stdout"
                      /\ ~a.verbose}

InitCenter ==
    /\ args \in CenterArgs
    /\ pc = "init"
    /\ coords = << >>
    /\ gcp_found = << >>
    /\ foutput = "unopened"
    /\ finput = "unopened"
    /\ stdout = << >>
    /\ file = OldContent
    /\ idx = 1
    /\ seen = << >>

NextCenter ==
    \/ \E outOK \in BOOLEAN, inOK \in BOOLEAN, content \in Files : Construct(outOK, inOK, content)
    \/ \E frame \in CenterFrames : ProcessImage(frame)
    \/ Finish

SpecCenter == InitCenter /\ [][NextCenter]_vars

(* ============================ observations ============================= *)
\* what has been written through self.foutput
Output ==
    IF args.output = "stdout" THEN Texts(Writes(stdout))
    ELSE IF foutput = "unopened" THEN << >> ELSE file

\* what has been printed
Console == Texts(Prints(stdout))

IsHeader(line) == line[1] = S("EPSG:")
MarkerLines == SelectSeq(Output, LAMBDA l : ~IsHeader(l))

HasMsg(m) == \E p \in 1..Len(Console) : Console[p][1] = S(m)
CountMsg(sq, m) == Cardinality({p \in 1..Len(sq) : sq[p][1] = S(m)})

\* every detection the detector has returned so far, in order
RECURSIVE Detections(_)
Detections(sn) ==
    IF sn = << >> THEN << >>
    ELSE LET last == sn[Len(sn)]
         IN Detections(SubSeq(sn, 1, Len(sn) - 1)) \o
            [p \in 1..Len(last.frame.markers) |->
                [name |-> last.name, m |-> last.frame.markers[p]]]

Known(j) == j \in DOMAIN coords
\* a detection that has world coordinates, or needs none to be listed
Listed(d) == args.type = "" \/ Known(d.m.id)

Skipped(frame) == ~frame.readable \/ frame.markers = << >>
HasDup(frame) == \E p, q \in 1..Len(frame.markers) :
                    p # q /\ frame.markers[p].id = frame.markers[q].id
CountId(frame, j) == Cardinality({p \in 1..Len(frame.markers) : frame.markers[p].id = j})
Ids == {m.id : m \in Markers}

Running == pc \in {"run", "done"}
\* the step is a call of process_image
ImageStep == pc = "run" /\ seen' # seen
LastSeen == seen'[Len(seen')]

(* ================================ claims =============================== *)

\* C1 (as stated): when the run is over, the number of marker lines in the
\* output equals the number of markers the detector returned, whatever the
\* output format and the coordinate table.
C1_AsStated == pc = "done" => Len(MarkerLines) = Len(Detections(seen))

\* C1 (amended): the number of marker lines in the output equals the number
\* of detected markers that are listed: all of them in the default format,
\* those whose id is in the coordinate table in the ODM and VisualSfM formats.
C1_LinePerListedMarker ==
    Running => Len(MarkerLines) = Len(SelectSeq(Detections(seen), Listed))

C1_Witness ==
    /\ pc = "done"
    /\ args.type = "ODM"
    /\ \E p, q \in 1..Len(Detections(seen)) :
          Known(Detections(seen)[p].m.id) /\ ~Known(Detections(seen)[q].m.id)
    /\ Len(MarkerLines) >= 1

C3_MissingCoordinates ==
    [][(ImageStep /\ args.type \in {"ODM", "VisualSfM"}) =>
         LET ms == LastSeen.frame.markers
             known == {p \in 1..Len(ms) : Known(ms[p].id)}
             before == Console
             after == Texts(Prints(stdout'))
             Warned(sq, j) == Cardinality({p \in 1..Len(sq) :
                                            sq[p] = <<S("No coordinates for"), D(j)>>})
         IN /\ Len(Output') = Len(Output) + Cardinality(known)
            /\ CountMsg(after, "No coordinates for")
                 = CountMsg(before, "No coordinates for") + Len(ms) - Cardinality(known)
            /\ \A j \in Ids :
                 Warned(after, j) = Warned(before, j)
                                     + (IF Known(j) THEN 0 ELSE CountId(LastSeen.frame, j))
            /\ pc' = "run" /\ idx' = idx + 1]_vars

C3_Witness ==
    /\ pc = "done"
    /\ args.type \in {"ODM", "VisualSfM"}
    /\ Len(seen) = 2
    /\ Len(seen[1].frame.markers) = 2
    /\ ~Known(seen[1].frame.markers[1].id)
    /\ Known(seen[1].frame.markers[2].id)
    /\ \E p \in 1..Len(seen[2].frame.markers) : Known(seen[2].frame.markers[p].id)
    /\ Len(MarkerLines) >= 2
    /\ HasMsg("No coordinates for")

\* C4 (as stated): every failure is a print after which the run carries on:
\* a run that was given images (and is not a --list run) never ends in any
\* other way than by finishing process_images.
C4_AsStated == (~args.list /\ args.names # << >>) => pc \in {"init", "run", "done"}

\* C4 (amended): the failures met once construction is over (an unreadable
\* image, an image without markers, a marker without coordinates) and a
\* coordinate line with too few fields are prints after which the run
\* carries on to pass every image to process_image.  A missing image list
\* and an output or coordinate file that cannot be opened are printed, and
\* the run then exits with status 1; a coordinate line of four fields that
\* are not numbers ends the run with an uncaught error; in both cases no
\* image has been processed and no line written.
C4_FailuresAmended ==
    /\ (pc = "exit1") =
         (\/ HasMsg("no input images given")
          \/ HasMsg("cannot open output file")
          \/ HasMsg("cannot open input file"))
    /\ pc = "exit1" => Console[Len(Console)] = Help.text
    /\ pc = "error" => finput = "open"
    /\ pc \in {"exit1", "error"} => seen = << >> /\ Output = << >>
    /\ pc = "done" => Len(seen) = Len(args.names)
    /\ (\/ HasMsg("error reading image:")
        \/ HasMsg("No markers found on image")
        \/ HasMsg("No coordinates for")) => Running

C4_Witness ==
    /\ pc = "done"
    /\ HasMsg("Illegal input:")
    /\ HasMsg("error reading image:")
    /\ HasMsg("No coordinates for")
    /\ Len(seen) = 2

\* C5: the duplicate warning is printed for exactly the images on which some
\* id occurs more than once, and nothing is deduplicated: each detection has
\* its own entry in its marker's image list, in order of detection, and in
\* the default format its own output line.
RECURSIVE ImagesOf(_, _)
ImagesOf(sn, j) ==
    IF sn = << >> THEN << >>
    ELSE LET last == sn[Len(sn)]
         IN ImagesOf(SubSeq(sn, 1, Len(sn) - 1), j) \o
            [p \in 1..CountId(last.frame, j) |-> last.name]

FoundImages(j) ==
    IF \E p \in 1..Len(gcp_found) : gcp_found[p].id = j
    THEN (CHOOSE e \in SetOf(gcp_found) : e.id = j).images
    ELSE << >>

C5_DuplicatesKept ==
    LET console == Console
        lines == MarkerLines
        dets == Detections(seen)
    IN /\ CountMsg(console, "duplicate markers on image")
            = Cardinality({p \in 1..Len(seen) : HasDup(seen[p].frame)})
       /\ \A p \in 1..Len(seen) :
            HasDup(seen[p].frame) =>
               \E q \in 1..Len(console) :
                  console[q] = <<S("duplicate markers on image"), S(seen[p].name)>>
       /\ \A j \in Ids : FoundImages(j) = ImagesOf(seen, j)
       /\ \A p, q \in 1..Len(gcp_found) : gcp_found[p].id = gcp_found[q].id => p = q
       /\ (Running /\ args.type = "") =>
            \A n \in Images :
               Cardinality({p \in 1..Len(lines) : lines[p][Len(lines[p])] = S(basename(n))})
               = Cardinality({p \in 1..Len(dets) : dets[p].name = n})

C5_Witness ==
    /\ pc = "done"
    /\ args.type = ""
    /\ \E p \in 1..Len(seen) : HasDup(seen[p].frame)
    /\ \E p \in 1..Len(gcp_found) :
          /\ Len(gcp_found[p].images) >= 2
          /\ gcp_found[p].images[1] = gcp_found[p].images[2]
    /\ HasMsg("duplicate markers on image")

\* C6: with the list flag the constructor prints the dictionary list and
\* exits with status 0 before anything else: the output file is neither
\* opened nor truncated, the coordinate file is not read, no header is
\* written and no image is processed, whatever the other options are.
C6_ListExits ==
    args.list =>
        /\ pc \in {"init", "exit0"}
        /\ foutput = "unopened" /\ finput = "unopened"
        /\ file = OldContent
        /\ coords = << >>
        /\ Writes(stdout) = << >>
        /\ seen = << >> /\ gcp_found = << >>
        /\ pc = "exit0" =>
              /\ Len(Console) = Len(ArucoDicts) + 1
              /\ Console[Len(Console)] = <<D(99), S("DICT_3X3_32 custom")>>
              /\ \A p \in 1..Len(Console) - 1 : Console[p][1].n <= Console[p + 1][1].n

C6_Witness ==
    /\ pc = "exit0"
    /\ args.list
    /\ args.names # << >>
    /\ args.output = "gcp.txt"
    /\ args.input = "coords.txt"
    /\ args.type = "ODM"
    /\ args.epsg # NoEpsg

\* the pixel position written on a marker line
LineXY(line) ==
    IF args.type = "VisualSfM" \/ Len(line) = 4
    THEN <<line[2].n, line[3].n>>
    ELSE <<line[4].n, line[5].n>>

\* v is the integer nearest to total / 4, an exact half going to the even one
NearestToQuarter(v, total) ==
    /\ 4 * v - total \in -2..2
    /\ 4 * v - total \in {-2, 2} => v % 2 = 0

CornerSum(m, axis) ==
    m.corners[1][axis] + m.corners[2][axis] + m.corners[3][axis] + m.corners[4][axis]

\* C7: the x and the y written for a marker are the averages of its four
\* corner x and of its four corner y, each rounded to the nearest integer
\* with an exact half going to the even integer.
C7_Centroid ==
    (Running /\ args.type = "") =>
        LET lines == MarkerLines
            dets == Detections(seen)
        IN /\ Len(lines) = Len(dets)
           /\ \A p \in 1..Len(lines) :
                /\ NearestToQuarter(LineXY(lines[p])[1], CornerSum(dets[p].m, 1))
                /\ NearestToQuarter(LineXY(lines[p])[2], CornerSum(dets[p].m, 2))

C7_Witness ==
    /\ pc = "done"
    /\ Len(MarkerLines) = 1
    /\ Len(Detections(seen)) = 1
    /\ CornerSum(Detections(seen)[1].m, 1) = 6
    /\ CornerSum(Detections(seen)[1].m, 2) = 3
    /\ LineXY(MarkerLines[1]) = <<2, 1>>

\* the image and pixel position of a marker line, and of a detection
LineKey(line) ==
    <<IF args.type = "VisualSfM" THEN line[1] ELSE line[IF args.type = "ODM" THEN 6 ELSE Len(line)],
      LineXY(line)>>
DetKey(d) == <<S(basename(d.name)), <<center(d.m.corners, 1), center(d.m.corners, 2)>> >>

\* C8: process_image is called once per name, in list order; the marker
\* lines follow the order of the images and, within an image, the order of
\* the detector's result; the output is closed only after the last image,
\* nothing is written after the close, and the loop comes to its end.
C8_InOrder ==
    /\ [](LET listed == SelectSeq(Detections(seen), Listed)
              lines == MarkerLines
          IN /\ Len(seen) <= Len(args.names)
             /\ \A p \in 1..Len(seen) : seen[p].name = args.names[p]
             /\ Running => Len(lines) = Len(listed)
             /\ Running => \A q \in 1..Len(listed) : LineKey(lines[q]) = DetKey(listed[q])
             /\ foutput = "closed" => (pc = "done" /\ Len(seen) = Len(args.names)))
    /\ [][foutput = "closed" => (Output' = Output /\ seen' = seen)]_vars
    /\ [][seen' # seen => (Len(seen') = Len(seen) + 1 /\ foutput' # "closed")]_vars
    /\ (pc = "run" ~> pc = "done")

C8_Witness ==
    /\ pc = "done"
    /\ foutput = "closed"
    /\ Len(seen) = 2
    /\ seen[1].name # seen[2].name
    /\ Len(seen[1].frame.markers) = 2
    /\ seen[1].frame.markers[1].id # seen[1].frame.markers[2].id
    /\ Len(MarkerLines) >= 3

Headers == SelectSeq(Output, IsHeader)

Kinds(line) == [p \in 1..Len(line) |-> line[p].k]

\* C10: the layout follows the type, and in the default layout the
\* coordinates: ODM 'east north elev x y image id', VisualSfM 'image x y
\* east north elev', default 'east north elev x y image' for an id of the
\* coordinate table and 'id x y image' otherwise; so in the default layout
\* every detection has its line and the id shows exactly when the marker
\* has no coordinates.
C10_Layout ==
    Running =>
        LET dets == Detections(seen)
            listed == SelectSeq(dets, Listed)
            lines == MarkerLines
        IN /\ Len(lines) = Len(listed)
           /\ args.type = "" => listed = dets
           /\ \A p \in 1..Len(listed) :
                LET line == lines[p]
                    j == listed[p].m.id
                    img == S(basename(listed[p].name))
                    enu == [t \in 1..3 |-> F3(coords[j][t])]
                IN IF args.type = "ODM"
                   THEN /\ Kinds(line) = <<"f3", "f3", "f3", "d", "d", "s", "d">>
                        /\ SubSeq(line, 1, 3) = enu
                        /\ line[6] = img /\ line[7] = D(j)
                   ELSE IF args.type = "VisualSfM"
                   THEN /\ Kinds(line) = <<"s", "d", "d", "f3", "f3", "f3">>
                        /\ line[1] = img
                        /\ SubSeq(line, 4, 6) = enu
                   ELSE IF Known(j)
                   THEN /\ Kinds(line) = <<"f3", "f3", "f3", "d", "d", "s">>
                        /\ SubSeq(line, 1, 3) = enu
                        /\ line[6] = img
                   ELSE /\ Kinds(line) = <<"d", "d", "d", "s">>
                        /\ line[1] = D(j) /\ line[4] = img

C10_Witness ==
    /\ pc = "done"
    /\ args.type = ""
    /\ \E p, q \in 1..Len(MarkerLines) :
          Len(MarkerLines[p]) = 4 /\ Len(MarkerLines[q]) = 6

====
